---- MODULE Spec2Model ----
(***************************************************************************)
(* Model of alloc_check (src/src/alloc_check.c): the ledger kept in the    *)
(* static `status`, the four checked_* shims, report_alloc_checks and      *)
(* cleanup_alloc_checks, driven by a client program and by the underlying  *)
(* malloc/realloc/free.                                                    *)
(*                                                                         *)
(* C arrays are 0-based; a voidptr_array's data is a sequence and element  *)
(* i of the C array is data[i + 1] (operator At).                          *)
(***************************************************************************)
EXTENDS Integers, Sequences, FiniteSets, TLC

(***************************************************************************)
(* Bounds of the model.                                                    *)
(***************************************************************************)
\* number of calls the client makes to the public entry points
MaxCalls == 3
\* the underlying allocator hands out the addresses 1..MaxAddr
MaxAddr == 3

(***************************************************************************)
(* Program constants.                                                      *)
(***************************************************************************)
NULL == 0
VOIDPTRARR_DEFAULT_CAP == 4
ENTRY_MALLOC == 1
ENTRY_CALLOC == 2
ENTRY_REALLOC == 3
ENTRY_FREE == 4

Addr == 1..MaxAddr
Ptr == {NULL} \cup Addr

\* request sizes the client uses: zero and one non-zero size per entry point
\* (20 * sizeof(int) and 5 * sizeof(int) of the demonstration program), so
\* that a resize can shrink a block
MallocSizes == {0, 80}
ReallocSizes == {0, 20}
\* (nitems, size) pairs the client passes to checked_calloc
CallocArgs == {<<10, 4>>, <<0, 4>>}

VARIABLES
    status,     \* static checker_status status (under SpecHash: that of the
                \* hash-table-backed version)
    proc,       \* "running" | "exit72" (DIE) | "crashed" (null dereference)
    heap,       \* the underlying allocator: per address, live and owning block
    released,   \* per minted id: releases of the block's own live address
    calls,      \* entry-point calls since the ledger was last initialised
    last,       \* the last shim call: allocator result and returned value
    ub,         \* the client passed a dangling or foreign address
    ncalls,     \* public calls made so far
    out,        \* the metrics of the last report printed
    pc,         \* position of the demonstration scenario (0: no scenario)
    loc         \* the scenario's local variables

vars == <<status, proc, heap, released, calls, last, ub, ncalls, out, pc, loc>>

(***************************************************************************)
(* voidptr_array                                                           *)
(***************************************************************************)
\* a NULL voidptr_array pointer
NULL_ARRAY == [null |-> TRUE, data |-> <<>>, capacity |-> 0, count |-> 0]

create_voidptr_array ==
    [null |-> FALSE, data |-> <<>>, capacity |-> VOIDPTRARR_DEFAULT_CAP, count |-> 0]

At(arr, i) == arr.data[i + 1]

RECURSIVE ShiftUntil(_, _)
\* while (arr->capacity < capacity) arr->capacity <<= 1;
ShiftUntil(cap, capacity) ==
    IF cap < capacity THEN ShiftUntil(2 * cap, capacity) ELSE cap

ensure_voidptr_array(arr, capacity) ==
    IF arr.capacity >= capacity THEN arr
    ELSE LET c0 == IF arr.capacity < VOIDPTRARR_DEFAULT_CAP
                   THEN VOIDPTRARR_DEFAULT_CAP ELSE arr.capacity
         IN  [arr EXCEPT !.capacity = ShiftUntil(c0, capacity)]

\* a trim that shrinks the storage to one element less than the count
trim_voidptr_array_drops_last(arr) ==
    IF arr.count = arr.capacity THEN arr
    ELSE [arr EXCEPT !.capacity = arr.count - 1,
                     !.count = arr.count - 1,
                     !.data = SubSeq(@, 1, arr.count - 1)]

trim_voidptr_array(arr) ==
    IF arr.count = arr.capacity THEN arr
    ELSE [arr EXCEPT !.capacity = arr.count]

append_voidptr_array(arr, x) ==
    LET a == ensure_voidptr_array(arr, arr.capacity + 1)
    IN  [a EXCEPT !.data = Append(@, x), !.count = @ + 1]

(***************************************************************************)
(* memory_entry and checker_status                                         *)
(***************************************************************************)
create_memory_entry(type, id, old_ptr, new_ptr, size, line) ==
    [id |-> id, type |-> type, old_ptr |-> old_ptr, new_ptr |-> new_ptr,
     size |-> size, line |-> line]

\* static checker_status status = { .id_counter = 0, .allocs = NULL, ... }
status_initial ==
    [id_counter |-> 0, allocs |-> NULL_ARRAY, reallocs |-> NULL_ARRAY,
     frees |-> NULL_ARRAY, pointers |-> NULL_ARRAY, entry_lookup |-> NULL_ARRAY]

\* an init_checker without the NULL entry of the pointer table
init_checker_no_sentinel(st) ==
    IF ~st.allocs.null THEN st
    ELSE [id_counter   |-> 1,
          allocs       |-> create_voidptr_array,
          reallocs     |-> create_voidptr_array,
          frees        |-> create_voidptr_array,
          pointers     |-> create_voidptr_array,
          entry_lookup |-> append_voidptr_array(create_voidptr_array,
                                                create_voidptr_array)]

\* an init_checker without the `if (status.allocs != NULL) return;`
init_checker_always(st) ==
    [id_counter   |-> 1,
     allocs       |-> create_voidptr_array,
     reallocs     |-> create_voidptr_array,
     frees        |-> create_voidptr_array,
     pointers     |-> append_voidptr_array(create_voidptr_array, NULL),
     entry_lookup |-> append_voidptr_array(create_voidptr_array,
                                           create_voidptr_array)]

init_checker(st) ==
    IF ~st.allocs.null THEN st
    ELSE [id_counter   |-> 1,
          allocs       |-> create_voidptr_array,
          reallocs     |-> create_voidptr_array,
          frees        |-> create_voidptr_array,
          pointers     |-> append_voidptr_array(create_voidptr_array, NULL),
          entry_lookup |-> append_voidptr_array(create_voidptr_array,
                                                create_voidptr_array)]

\* the first index whose pointer equals ptr; 0 for NULL and for unlisted
find_id(st, ptr) ==
    LET hits == {i \in 0..(st.pointers.count - 1) : At(st.pointers, i) = ptr}
    IN  IF hits = {} THEN 0
        ELSE CHOOSE i \in hits : \A j \in hits : i <= j

\* the number of slots find_id compares with ptr: the loop runs from slot 0
\* to the first match, or over the whole table
find_id_steps(st, ptr) ==
    LET hits == {i \in 0..(st.pointers.count - 1) : At(st.pointers, i) = ptr}
    IN  IF hits = {} THEN st.pointers.count
        ELSE (CHOOSE i \in hits : \A j \in hits : i <= j) + 1

\* append_voidptr_array(status.entry_lookup->data[id], entry)
AppendToBlock(lookup, id, entry) ==
    [lookup EXCEPT !.data[id + 1] = append_voidptr_array(@, entry)]

(***************************************************************************)
(* The shims, as functions of the ledger and of the underlying allocator's *)
(* result.                                                                 *)
(***************************************************************************)
\* a checked_malloc that leaves a failed allocation out of the alloc list
malloc_ledger_drop_failed(st0, ptr, size, line) ==
    LET st == init_checker(st0) IN
    IF ptr = NULL
    THEN LET entry == create_memory_entry(ENTRY_MALLOC, 0, NULL, ptr, size, line)
         IN  [st EXCEPT !.entry_lookup = AppendToBlock(@, 0, entry)]
    ELSE LET id == st.id_counter
             entry == create_memory_entry(ENTRY_MALLOC, id, NULL, ptr, size, line)
         IN  [st EXCEPT !.id_counter = @ + 1,
                        !.pointers = append_voidptr_array(@, ptr),
                        !.allocs = append_voidptr_array(@, entry),
                        !.entry_lookup =
                            AppendToBlock(append_voidptr_array(@, create_voidptr_array),
                                          id, entry)]

\* a checked_malloc that files the first entry of a new block under bucket 0
malloc_ledger_first_entry_in_zero(st0, ptr, size, line) ==
    LET st == init_checker(st0) IN
    IF ptr = NULL
    THEN LET entry == create_memory_entry(ENTRY_MALLOC, 0, NULL, ptr, size, line)
         IN  [st EXCEPT !.allocs = append_voidptr_array(@, entry),
                        !.entry_lookup = AppendToBlock(@, 0, entry)]
    ELSE LET id == st.id_counter
             entry == create_memory_entry(ENTRY_MALLOC, id, NULL, ptr, size, line)
         IN  [st EXCEPT !.id_counter = @ + 1,
                        !.pointers = append_voidptr_array(@, ptr),
                        !.allocs = append_voidptr_array(@, entry),
                        !.entry_lookup =
                            AppendToBlock(append_voidptr_array(@, create_voidptr_array),
                                          0, entry)]

malloc_ledger(st0, ptr, size, line) ==
    LET st == init_checker(st0) IN
    IF ptr = NULL
    THEN LET entry == create_memory_entry(ENTRY_MALLOC, 0, NULL, ptr, size, line)
         IN  [st EXCEPT !.allocs = append_voidptr_array(@, entry),
                        !.entry_lookup = AppendToBlock(@, 0, entry)]
    ELSE LET id == st.id_counter
             entry == create_memory_entry(ENTRY_MALLOC, id, NULL, ptr, size, line)
         IN  [st EXCEPT !.id_counter = @ + 1,
                        !.pointers = append_voidptr_array(@, ptr),
                        !.allocs = append_voidptr_array(@, entry),
                        !.entry_lookup =
                            AppendToBlock(append_voidptr_array(@, create_voidptr_array),
                                          id, entry)]

\* the size checked_calloc asks of the underlying allocator: malloc(size)
calloc_request(nitems, size) == size

\* the call each shim makes on the C library: the function, the bytes asked
\* for and whether the block comes zero-initialised
malloc_call(size) == [fn |-> "malloc", bytes |-> size, zeroed |-> FALSE]
calloc_call(nitems, size) ==
    [fn |-> "malloc", bytes |-> calloc_request(nitems, size), zeroed |-> FALSE]
realloc_call(ptr, size) == [fn |-> "realloc", bytes |-> size, zeroed |-> FALSE]
free_call(ptr) == [fn |-> "free", bytes |-> 0, zeroed |-> FALSE]

\* the call CHKD_CALLOC(nitems, size) makes when USE_STANDARD_MEM is defined
standard_calloc(nitems, size) ==
    [fn |-> "calloc", bytes |-> nitems * size, zeroed |-> TRUE]

\* a checked_calloc whose failure branch takes an id: id = status.id_counter++
\* on both branches, the entry still filed under bucket 0
calloc_ledger_failure_takes_id(st0, ptr, nitems, size, line) ==
    LET st == init_checker(st0) IN
    IF ptr = NULL
    THEN LET entry == create_memory_entry(ENTRY_CALLOC, 0, NULL, ptr, size, line)
         IN  [st EXCEPT !.id_counter = @ + 1,
                        !.allocs = append_voidptr_array(@, entry),
                        !.entry_lookup = AppendToBlock(@, 0, entry)]
    ELSE LET id == st.id_counter
             entry == create_memory_entry(ENTRY_CALLOC, id, NULL, ptr,
                                          nitems * size, line)
         IN  [st EXCEPT !.id_counter = @ + 1,
                        !.pointers = append_voidptr_array(@, ptr),
                        !.allocs = append_voidptr_array(@, entry),
                        !.entry_lookup =
                            AppendToBlock(append_voidptr_array(@, create_voidptr_array),
                                          id, entry)]

calloc_ledger(st0, ptr, nitems, size, line) ==
    LET st == init_checker(st0) IN
    IF ptr = NULL
    THEN LET entry == create_memory_entry(ENTRY_CALLOC, 0, NULL, ptr, size, line)
         IN  [st EXCEPT !.allocs = append_voidptr_array(@, entry),
                        !.entry_lookup = AppendToBlock(@, 0, entry)]
    ELSE LET id == st.id_counter
             entry == create_memory_entry(ENTRY_CALLOC, id, NULL, ptr,
                                          nitems * size, line)
         IN  [st EXCEPT !.id_counter = @ + 1,
                        !.pointers = append_voidptr_array(@, ptr),
                        !.allocs = append_voidptr_array(@, entry),
                        !.entry_lookup =
                            AppendToBlock(append_voidptr_array(@, create_voidptr_array),
                                          id, entry)]

\* a checked_realloc that never updates the pointer table
realloc_ledger_keeps_old(st0, ptr, new_ptr, size, line) ==
    LET st == init_checker(st0)
        id == find_id(st, ptr)
        entry == create_memory_entry(ENTRY_REALLOC, id, ptr, new_ptr, size, line)
    IN  [st EXCEPT !.reallocs = append_voidptr_array(@, entry),
                   !.entry_lookup = AppendToBlock(@, id, entry)]

\* a checked_realloc that updates the pointer table without the
\* `new_ptr != NULL` test
realloc_ledger_maps_null(st0, ptr, new_ptr, size, line) ==
    LET st == init_checker(st0)
        id == find_id(st, ptr)
        entry == create_memory_entry(ENTRY_REALLOC, id, ptr, new_ptr, size, line)
    IN  [st EXCEPT !.reallocs = append_voidptr_array(@, entry),
                   !.pointers = IF id # 0
                                THEN [@ EXCEPT !.data[id + 1] = new_ptr]
                                ELSE @,
                   !.entry_lookup = AppendToBlock(@, id, entry)]

\* a checked_realloc that updates the pointer table without the `id != 0` test
realloc_ledger_maps_unlisted(st0, ptr, new_ptr, size, line) ==
    LET st == init_checker(st0)
        id == find_id(st, ptr)
        entry == create_memory_entry(ENTRY_REALLOC, id, ptr, new_ptr, size, line)
    IN  [st EXCEPT !.reallocs = append_voidptr_array(@, entry),
                   !.pointers = IF new_ptr # NULL
                                THEN [@ EXCEPT !.data[id + 1] = new_ptr]
                                ELSE @,
                   !.entry_lookup = AppendToBlock(@, id, entry)]

realloc_ledger(st0, ptr, new_ptr, size, line) ==
    LET st == init_checker(st0)
        id == find_id(st, ptr)
        entry == create_memory_entry(ENTRY_REALLOC, id, ptr, new_ptr, size, line)
    IN  [st EXCEPT !.reallocs = append_voidptr_array(@, entry),
                   !.pointers = IF id # 0 /\ new_ptr # NULL
                                THEN [@ EXCEPT !.data[id + 1] = new_ptr]
                                ELSE @,
                   !.entry_lookup = AppendToBlock(@, id, entry)]

\* a checked_free that clears the slot of the released block
free_ledger_unmaps(st0, ptr, line) ==
    LET st == init_checker(st0)
        id == find_id(st, ptr)
        entry == create_memory_entry(ENTRY_FREE, id, ptr, NULL, 0, line)
    IN  [st EXCEPT !.frees = append_voidptr_array(@, entry),
                   !.pointers = IF id # 0 THEN [@ EXCEPT !.data[id + 1] = NULL]
                                ELSE @,
                   !.entry_lookup =
                       [AppendToBlock(@, id, entry) EXCEPT
                            !.data[id + 1] = trim_voidptr_array(@)]]

free_ledger(st0, ptr, line) ==
    LET st == init_checker(st0)
        id == find_id(st, ptr)
        entry == create_memory_entry(ENTRY_FREE, id, ptr, NULL, 0, line)
    IN  [st EXCEPT !.frees = append_voidptr_array(@, entry),
                   !.entry_lookup =
                       [AppendToBlock(@, id, entry) EXCEPT
                            !.data[id + 1] = trim_voidptr_array(@)]]

\* checked_malloc and checked_calloc: return ptr;
alloc_return(ptr) == ptr

\* a shim that hands back its argument instead of the allocator's result
realloc_return_old(ptr, new_ptr) == ptr

\* checked_realloc: return new_ptr;
realloc_return(ptr, new_ptr) == new_ptr

(***************************************************************************)
(* The report passes                                                       *)
(***************************************************************************)
\* status.entry_lookup->data[i], as the sequence of its entries
EntriesOf(st, i) == At(st.entry_lookup, i).data

IsAllocType(e) == e.type = ENTRY_MALLOC \/ e.type = ENTRY_CALLOC

\* the ids of S in ascending order, as the loops `for (i = ...; i < count; i++)`
\* store them
RECURSIVE Ascending(_)
Ascending(S) ==
    IF S = {} THEN <<>>
    ELSE LET m == CHOOSE i \in S : \A j \in S : i <= j
         IN  <<m>> \o Ascending(S \ {m})

RECURSIVE SumSeq(_)
SumSeq(s) == IF s = <<>> THEN 0 ELSE Head(s) + SumSeq(Tail(s))

\* a scan that keeps the largest size seen instead of the last
scan_block_peak(es) ==
    LET frees_at == {j \in 1..Len(es) : es[j].type = ENTRY_FREE}
        freed == frees_at # {}
        stop == IF freed THEN CHOOSE j \in frees_at : \A k \in frees_at : j <= k
                ELSE Len(es)
        sizes == {es[j].size : j \in 1..stop}
    IN  [freed |-> freed,
         last_size |-> IF stop = 0 THEN 0
                       ELSE CHOOSE x \in sizes : \A y \in sizes : y <= x]

\* the inner loop of find_lost_blocks over one block: freed, and last_size
\* (the size of every entry visited overwrites last_size; the loop stops at
\* the first FREE entry)
scan_block(es) ==
    LET frees_at == {j \in 1..Len(es) : es[j].type = ENTRY_FREE}
        freed == frees_at # {}
        stop == IF freed THEN CHOOSE j \in frees_at : \A k \in frees_at : j <= k
                ELSE Len(es)
    IN  [freed |-> freed,
         last_size |-> IF stop = 0 THEN 0 ELSE es[stop].size]

find_lost_blocks(st) ==
    LET n == st.entry_lookup.count
        lost(i) == ~scan_block(EntriesOf(st, i)).freed
        blockv == Ascending({i \in 1..(n - 1) : lost(i)})
    IN  [block_array |-> blockv,
         block_count |-> Len(blockv),
         total_size  |-> SumSeq([k \in 1..Len(blockv) |->
                                    scan_block(EntriesOf(st, blockv[k])).last_size])]

\* print_missing_frees: the size shown for a listed block is the size of the
\* last entry of its history
shown_block_size(st, block) ==
    LET es == EntriesOf(st, block) IN es[Len(es)].size

\* a scan that looks at allocs only and never reaches the realloc branch
first_zero_alloc_only(es) ==
    LET zs == {j \in 1..Len(es) : es[j].size = 0 /\ IsAllocType(es[j])}
    IN  IF zs = {} THEN 0 ELSE CHOOSE j \in zs : \A k \in zs : j <= k

\* the first entry of a block that is a zero-sized alloc or realloc decides
\* where the block is counted (both branches break out of the inner loop)
first_zero(es) ==
    LET zs == {j \in 1..Len(es) :
                  /\ es[j].size = 0
                  /\ (IsAllocType(es[j]) \/ es[j].type = ENTRY_REALLOC)}
    IN  IF zs = {} THEN 0 ELSE CHOOSE j \in zs : \A k \in zs : j <= k

find_zero_re_allocs(st) ==
    LET n == st.entry_lookup.count
        za(i) == LET es == EntriesOf(st, i) f == first_zero(es)
                 IN  f # 0 /\ IsAllocType(es[f])
        zr(i) == LET es == EntriesOf(st, i) f == first_zero(es)
                 IN  f # 0 /\ es[f].type = ENTRY_REALLOC
        allocv == Ascending({i \in 0..(n - 1) : za(i)})
        reallocv == Ascending({i \in 0..(n - 1) : zr(i)})
    IN  [alloc_array |-> allocv, realloc_array |-> reallocv,
         zero_alloc_count |-> Len(allocv), zero_realloc_count |-> Len(reallocv)]

\* a failed-allocation count that forgets the `size != 0` test
find_failed_re_allocs_any_size(st) ==
    LET n == st.entry_lookup.count
        null_block == EntriesOf(st, 0)
        allocc == Cardinality({i \in 1..Len(null_block) : IsAllocType(null_block[i])})
        hits(i) == {j \in 1..Len(EntriesOf(st, i)) :
                      /\ EntriesOf(st, i)[j].type = ENTRY_REALLOC
                      /\ EntriesOf(st, i)[j].size # 0}
        reallocc == SumSeq([k \in 1..(n - 1) |-> Cardinality(hits(k))])
        has(i) == hits(i) # {}
    IN  [failed_reallocs_v |-> Ascending({i \in 1..(n - 1) : has(i)}),
         failed_allocs |-> allocc,
         failed_reallocs |-> reallocc]

find_failed_re_allocs(st) ==
    LET n == st.entry_lookup.count
        null_block == EntriesOf(st, 0)
        allocc == Cardinality({i \in 1..Len(null_block) :
                      IsAllocType(null_block[i]) /\ null_block[i].size # 0})
        hits(i) == {j \in 1..Len(EntriesOf(st, i)) :
                      /\ EntriesOf(st, i)[j].type = ENTRY_REALLOC
                      /\ EntriesOf(st, i)[j].size # 0}
        reallocc == SumSeq([k \in 1..(n - 1) |-> Cardinality(hits(k))])
        has(i) == hits(i) # {}
    IN  [failed_reallocs_v |-> Ascending({i \in 1..(n - 1) : has(i)}),
         failed_allocs |-> allocc,
         failed_reallocs |-> reallocc]

\* the totals report_alloc_checks reads off the three event lists
report_totals(st) ==
    [allocs |-> st.allocs.count,
     reallocs |-> st.reallocs.count,
     frees |-> st.frees.count]

\* the numbers report_alloc_checks prints, for an initialised ledger
report_metrics(st) ==
    LET totals == report_totals(st)
        lost == find_lost_blocks(st)
        zero == find_zero_re_allocs(st)
        failed == find_failed_re_allocs(st)
    IN  [allocs |-> totals.allocs,
         reallocs |-> totals.reallocs,
         frees |-> totals.frees,
         blocks_lost |-> lost.block_count,
         memory_lost |-> lost.total_size,
         lost_blocks_v |-> lost.block_array,
         lost_sizes |-> [k \in 1..lost.block_count |->
                            shown_block_size(st, lost.block_array[k])],
         zero_allocs |-> zero.zero_alloc_count,
         zero_reallocs |-> zero.zero_realloc_count,
         failed_allocs |-> failed.failed_allocs,
         failed_reallocs |-> failed.failed_reallocs,
         null_reallocs |-> 0,
         null_frees |-> 0]

(***************************************************************************)
(* The allocations the ledger makes for itself.  A site is the function    *)
(* that calls malloc or realloc for the ledger.                            *)
(***************************************************************************)
\* the sites whose result is passed to DIE_NULL, all but the trim
DIE_NULL_sites_no_trim ==
    {"create_voidptr_array", "ensure_voidptr_array", "create_memory_entry",
     "find_lost_blocks", "find_zero_re_allocs", "find_failed_re_allocs"}

\* the sites whose result is passed to DIE_NULL
DIE_NULL_sites ==
    {"create_voidptr_array", "ensure_voidptr_array", "trim_voidptr_array",
     "create_memory_entry", "find_lost_blocks", "find_zero_re_allocs",
     "find_failed_re_allocs"}

\* init_checker on an absent ledger creates five arrays and appends to two
init_sites(st0) ==
    IF st0.allocs.null THEN {"create_voidptr_array", "ensure_voidptr_array"} ELSE {}

\* checked_malloc and checked_calloc: the entry, the appends, and the history
\* of a new id
alloc_sites(st0, ptr) ==
    init_sites(st0) \cup {"create_memory_entry", "ensure_voidptr_array"}
        \cup (IF ptr # NULL THEN {"create_voidptr_array"} ELSE {})

realloc_sites(st0) ==
    init_sites(st0) \cup {"create_memory_entry", "ensure_voidptr_array"}

\* checked_free: the trim calls realloc unless the history is full
free_sites(st0, ptr) ==
    LET st == init_checker(st0)
        id == find_id(st, ptr)
        entry == create_memory_entry(ENTRY_FREE, id, ptr, NULL, 0, 0)
        block == append_voidptr_array(At(st.entry_lookup, id), entry)
    IN  init_sites(st0) \cup {"create_memory_entry", "ensure_voidptr_array"}
            \cup (IF block.count = block.capacity THEN {}
                  ELSE {"trim_voidptr_array"})

report_sites(st0) ==
    init_sites(st0) \cup {"find_lost_blocks", "find_zero_re_allocs",
                          "find_failed_re_allocs"}

\* the scratch arrays of a report that are asked with zero bytes: malloc(0)
zero_scratch_sites(m) ==
    (IF m.blocks_lost = 0 THEN {"find_lost_blocks"} ELSE {})
        \cup (IF m.zero_allocs = 0 \/ m.zero_reallocs = 0
              THEN {"find_zero_re_allocs"} ELSE {})
        \cup (IF m.failed_reallocs = 0 THEN {"find_failed_re_allocs"} ELSE {})

\* the sizes of the scratch arrays report_alloc_checks allocates
\* (malloc(blockc * sizeof(size_t)) and the like, each followed by DIE_NULL)
scratch_counts(m) ==
    {m.blocks_lost, m.zero_allocs, m.zero_reallocs, m.failed_reallocs}

(***************************************************************************)
(* The underlying allocator (malloc, realloc, free of the C library) and   *)
(* the client.  heap[a].blk is the id minted for the block living at a     *)
(* (0: the tracker minted none for it).                                    *)
(***************************************************************************)
FreeCell == [live |-> FALSE, blk |-> 0]

\* malloc: NULL (failure, or a zero-sized request) or an address not in use
malloc_results(h) == {NULL} \cup {a \in Addr : ~h[a].live}

\* realloc(ptr, size): the new address, and whether the old block stays allocated
realloc_outcomes(h, ptr, size) ==
    IF ptr = NULL
    THEN {[new_ptr |-> p, keeps_old |-> FALSE] : p \in malloc_results(h)}
    ELSE IF h[ptr].live
    THEN {[new_ptr |-> NULL, keeps_old |-> TRUE], [new_ptr |-> ptr, keeps_old |-> TRUE]}
         \cup (IF size = 0 THEN {[new_ptr |-> NULL, keeps_old |-> FALSE]} ELSE {})
         \cup {[new_ptr |-> b, keeps_old |-> FALSE] : b \in {a \in Addr : ~h[a].live}}
    \* a dangling or foreign address: undefined behaviour, any result
    ELSE {[new_ptr |-> p, keeps_old |-> FALSE] : p \in malloc_results(h)}

heap_after_realloc(h, ptr, o) ==
    IF ptr # NULL /\ h[ptr].live
    THEN IF o.keeps_old THEN h
         ELSE IF o.new_ptr = NULL THEN [h EXCEPT ![ptr] = FreeCell]
         ELSE [h EXCEPT ![ptr] = FreeCell, ![o.new_ptr] = h[ptr]]
    ELSE IF o.new_ptr = NULL THEN h
         ELSE [h EXCEPT ![o.new_ptr] = [live |-> TRUE, blk |-> 0]]

NoCalls == [allocs |-> 0, reallocs |-> 0, frees |-> 0]
\* no call made on the C library
NoReq == [fn |-> "none", bytes |-> 0, zeroed |-> FALSE]
NoLast == [op |-> "none", raw |-> NULL, ret |-> NULL, oom |-> FALSE, zero |-> FALSE,
           req |-> NoReq, args |-> <<>>]
NoLoc == [A |-> NULL, B |-> NULL, C |-> NULL, D |-> NULL]

InitCommon ==
    /\ status = status_initial
    /\ proc = "running"
    /\ heap = [a \in Addr |-> FreeCell]
    /\ released = <<>>
    /\ calls = NoCalls
    /\ last = NoLast
    /\ ub = FALSE
    /\ ncalls = 0
    /\ out = <<>>
    /\ loc = NoLoc

Init == InitCommon /\ pc = 0

\* DIE: a bookkeeping allocation of the handler returned NULL, exit(72)
Die(op) ==
    /\ proc' = "exit72"
    /\ last' = [NoLast EXCEPT !.op = op, !.oom = TRUE]
    /\ UNCHANGED <<status, heap, released, calls, ub, ncalls, out>>

\* DIE on a scratch array asked with zero bytes: malloc(0) returned NULL
DieZero(op) ==
    /\ proc' = "exit72"
    /\ last' = [NoLast EXCEPT !.op = op, !.oom = TRUE, !.zero = TRUE]
    /\ UNCHANGED <<status, heap, released, calls, ub, ncalls, out>>

\* a NULL that no DIE_NULL catches is stored and dereferenced
Crash(op) ==
    /\ proc' = "crashed"
    /\ last' = [NoLast EXCEPT !.op = op, !.oom = TRUE]
    /\ UNCHANGED <<status, heap, released, calls, ub, ncalls, out>>

\* the allocation the handler of op makes for the ledger in function `site`
\* returned NULL
Fail(op, site) == IF site \in DIE_NULL_sites THEN Die(op) ELSE Crash(op)

FailZero(op, site) == IF site \in DIE_NULL_sites THEN DieZero(op) ELSE Crash(op)

DoMalloc(size, ptr) ==
    /\ status' = malloc_ledger(status, ptr, size, ncalls + 1)
    /\ heap' = IF ptr = NULL THEN heap
               ELSE [heap EXCEPT ![ptr] =
                        [live |-> TRUE, blk |-> init_checker(status).id_counter]]
    /\ released' = IF ptr = NULL THEN released ELSE Append(released, 0)
    /\ calls' = [calls EXCEPT !.allocs = @ + 1]
    /\ last' = [NoLast EXCEPT !.op = "malloc", !.raw = ptr, !.ret = alloc_return(ptr),
                              !.req = malloc_call(size), !.args = <<size>>]
    /\ ncalls' = ncalls + 1
    /\ UNCHANGED <<proc, ub, out>>

DoCalloc(nitems, size, ptr) ==
    /\ status' = calloc_ledger(status, ptr, nitems, size, ncalls + 1)
    /\ heap' = IF ptr = NULL THEN heap
               ELSE [heap EXCEPT ![ptr] =
                        [live |-> TRUE, blk |-> init_checker(status).id_counter]]
    /\ released' = IF ptr = NULL THEN released ELSE Append(released, 0)
    /\ calls' = [calls EXCEPT !.allocs = @ + 1]
    /\ last' = [NoLast EXCEPT !.op = "calloc", !.raw = ptr, !.ret = alloc_return(ptr),
                              !.req = calloc_call(nitems, size),
                              !.args = <<nitems, size>>]
    /\ ncalls' = ncalls + 1
    /\ UNCHANGED <<proc, ub, out>>

DoRealloc(ptr, size, o) ==
    /\ status' = realloc_ledger(status, ptr, o.new_ptr, size, ncalls + 1)
    /\ heap' = heap_after_realloc(heap, ptr, o)
    /\ ub' = (ub \/ (ptr # NULL /\ ~heap[ptr].live))
    /\ calls' = [calls EXCEPT !.reallocs = @ + 1]
    /\ last' = [NoLast EXCEPT !.op = "realloc", !.raw = o.new_ptr,
                              !.ret = realloc_return(ptr, o.new_ptr),
                              !.req = realloc_call(ptr, size), !.args = <<ptr, size>>]
    /\ ncalls' = ncalls + 1
    /\ UNCHANGED <<proc, released, out>>

DoFree(ptr) ==
    /\ status' = free_ledger(status, ptr, ncalls + 1)
    /\ heap' = IF ptr # NULL /\ heap[ptr].live THEN [heap EXCEPT ![ptr] = FreeCell]
               ELSE heap
    /\ released' = IF ptr # NULL /\ heap[ptr].live /\ heap[ptr].blk # 0
                   THEN [released EXCEPT ![heap[ptr].blk] = @ + 1]
                   ELSE released
    /\ ub' = (ub \/ (ptr # NULL /\ ~heap[ptr].live))
    /\ calls' = [calls EXCEPT !.frees = @ + 1]
    /\ last' = [NoLast EXCEPT !.op = "free", !.req = free_call(ptr), !.args = <<ptr>>]
    /\ ncalls' = ncalls + 1
    /\ UNCHANGED <<proc, out>>

\* a report that hands the scratch arrays' storage back by trimming the
\* histories it walked
report_ledger_trims(st0) ==
    LET st == init_checker(st0)
    IN  [st EXCEPT !.entry_lookup.data =
            [i \in 1..Len(@) |-> trim_voidptr_array(@[i])]]

\* the ledger report_alloc_checks leaves: init_checker, then passes that only
\* read it and free their own scratch arrays
report_ledger(st0) == init_checker(st0)

\* report_alloc_checks; zero_null: malloc(0) returns NULL on this platform
DoReport(zero_null) ==
    LET st == report_ledger(status)
        m == report_metrics(init_checker(status))
    IN  IF zero_null /\ 0 \in scratch_counts(m)
        THEN \E site \in zero_scratch_sites(m) : FailZero("report", site)
        ELSE /\ status' = st
             /\ out' = <<m>>
             /\ last' = [NoLast EXCEPT !.op = "report"]
             /\ ncalls' = ncalls + 1
             /\ UNCHANGED <<proc, heap, released, calls, ub>>

\* a cleanup that also frees what the pointer table points to
cleanup_released_frees_blocks(st) ==
    [entries   |-> st.allocs.data \o st.reallocs.data \o st.frees.data,
     histories |-> [i \in 1..st.entry_lookup.count |-> i - 1],
     lists     |-> <<"allocs", "reallocs", "frees", "pointers", "entry_lookup">>,
     user      |-> {st.pointers.data[i] : i \in 1..st.pointers.count} \ {NULL}]

\* a cleanup whose loop over status.frees is missing
cleanup_released_skips_frees(st) ==
    [entries   |-> st.allocs.data \o st.reallocs.data,
     histories |-> [i \in 1..st.entry_lookup.count |-> i - 1],
     lists     |-> <<"allocs", "reallocs", "frees", "pointers", "entry_lookup">>,
     user      |-> {}]

\* what cleanup_alloc_checks hands to free(), in order: the entries it
\* destroys (entry and file name), the histories it destroys (by id), the
\* five arrays of status, and the addresses of the client it frees
cleanup_released(st) ==
    [entries   |-> st.allocs.data \o st.reallocs.data \o st.frees.data,
     histories |-> [i \in 1..st.entry_lookup.count |-> i - 1],
     lists     |-> <<"allocs", "reallocs", "frees", "pointers", "entry_lookup">>,
     user      |-> {}]

\* cleanup_alloc_checks: reads status.allocs->count first
DoCleanup ==
    IF status.allocs.null
    THEN /\ proc' = "crashed"
         /\ last' = [NoLast EXCEPT !.op = "cleanup"]
         /\ UNCHANGED <<status, heap, released, calls, ub, ncalls, out>>
    ELSE /\ status' = status_initial
         /\ heap' = [a \in Addr |->
                        IF a \in cleanup_released(status).user THEN FreeCell
                        ELSE [heap[a] EXCEPT !.blk = 0]]
         /\ released' = <<>>
         /\ calls' = NoCalls
         /\ last' = [NoLast EXCEPT !.op = "cleanup"]
         /\ ncalls' = ncalls + 1
         /\ UNCHANGED <<proc, ub, out>>

\* the free-running client may make another call as long as it made fewer than limit
Ready(limit) == proc = "running" /\ pc = 0 /\ ncalls < limit

\* Addresses the run has not met yet (not allocated, in no recorded entry) are
\* interchangeable: the free-running client and allocator use only the lowest
\* of them, which loses no behaviour up to a renaming of addresses.
EntryPtrs(arr) ==
    {arr.data[i].old_ptr : i \in 1..arr.count} \cup {arr.data[i].new_ptr : i \in 1..arr.count}

Seen ==
    {a \in Addr : \/ heap[a].live
                  \/ a \in EntryPtrs(status.allocs)
                  \/ a \in EntryPtrs(status.reallocs)
                  \/ a \in EntryPtrs(status.frees)}

Canon(S, seen) ==
    {x \in S : \/ x = NULL
               \/ x \in seen
               \/ \A y \in Addr \ seen : x <= y}

CheckedMalloc(limit) ==
    /\ Ready(limit)
    /\ \/ \E size \in MallocSizes : \E ptr \in Canon(malloc_results(heap), Seen) :
              DoMalloc(size, ptr)
       \/ \E ptr \in Canon(malloc_results(heap), Seen) :
              \E site \in alloc_sites(status, ptr) : Fail("malloc", site)
    /\ UNCHANGED <<pc, loc>>

CheckedCalloc(limit) ==
    /\ Ready(limit)
    /\ \/ \E a \in CallocArgs : \E ptr \in Canon(malloc_results(heap), Seen) :
              DoCalloc(a[1], a[2], ptr)
       \/ \E ptr \in Canon(malloc_results(heap), Seen) :
              \E site \in alloc_sites(status, ptr) : Fail("calloc", site)
    /\ UNCHANGED <<pc, loc>>

CheckedRealloc(limit) ==
    /\ Ready(limit)
    /\ \/ \E ptr \in Canon(Ptr, Seen) : \E size \in ReallocSizes :
              \E o \in realloc_outcomes(heap, ptr, size) :
                  /\ o.new_ptr \in Canon(Ptr, Seen \cup {ptr})
                  /\ DoRealloc(ptr, size, o)
       \/ \E site \in realloc_sites(status) : Fail("realloc", site)
    /\ UNCHANGED <<pc, loc>>

CheckedFree(limit) ==
    /\ Ready(limit)
    /\ \/ \E ptr \in Canon(Ptr, Seen) : DoFree(ptr)
       \/ \E ptr \in Canon(Ptr, Seen) :
              \E site \in free_sites(status, ptr) : Fail("free", site)
    /\ UNCHANGED <<pc, loc>>

Report(limit) ==
    /\ Ready(limit)
    /\ \/ \E zero_null \in BOOLEAN : DoReport(zero_null)
       \/ \E site \in report_sites(status) : Fail("report", site)
    /\ UNCHANGED <<pc, loc>>

Cleanup(limit) ==
    /\ Ready(limit)
    /\ DoCleanup
    /\ UNCHANGED <<pc, loc>>

Client(limit) ==
    \/ CheckedMalloc(limit)
    \/ CheckedCalloc(limit)
    \/ CheckedRealloc(limit)
    \/ CheckedFree(limit)
    \/ Report(limit)
    \/ Cleanup(limit)

Next == Client(MaxCalls)

\* the same client making one more call
NextLong == Client(MaxCalls + 1)

Spec == Init /\ [][Next]_vars

SpecLong == Init /\ [][NextLong]_vars

(***************************************************************************)
(* The demonstration scenario: allocate(16) -> A; release(A);              *)
(* allocate(80) -> B; zero_allocate(10, 4) -> C; resize(C, 0) -> D;        *)
(* release(D) if D is not null; generate_report.  The allocations succeed, *)
(* the allocator chooses every address and the outcome of the resize.      *)
(***************************************************************************)
InitScenario == InitCommon /\ pc = 1

Step(n) == proc = "running" /\ pc = n

ScenarioAllocA ==
    /\ Step(1)
    /\ \E ptr \in malloc_results(heap) \ {NULL} :
          DoMalloc(16, ptr) /\ loc' = [loc EXCEPT !.A = alloc_return(ptr)]
    /\ pc' = 2

ScenarioReleaseA ==
    /\ Step(2)
    /\ DoFree(loc.A)
    /\ pc' = 3
    /\ UNCHANGED loc

ScenarioAllocB ==
    /\ Step(3)
    /\ \E ptr \in malloc_results(heap) \ {NULL} :
          DoMalloc(80, ptr) /\ loc' = [loc EXCEPT !.B = alloc_return(ptr)]
    /\ pc' = 4

ScenarioAllocC ==
    /\ Step(4)
    /\ \E ptr \in malloc_results(heap) \ {NULL} :
          DoCalloc(10, 4, ptr) /\ loc' = [loc EXCEPT !.C = alloc_return(ptr)]
    /\ pc' = 5

ScenarioResizeC ==
    /\ Step(5)
    /\ \E o \in realloc_outcomes(heap, loc.C, 0) :
          /\ DoRealloc(loc.C, 0, o)
          /\ loc' = [loc EXCEPT !.D = realloc_return(loc.C, o.new_ptr)]
          /\ pc' = IF realloc_return(loc.C, o.new_ptr) = NULL THEN 7 ELSE 6

ScenarioReleaseD ==
    /\ Step(6)
    /\ DoFree(loc.D)
    /\ pc' = 7
    /\ UNCHANGED loc

ScenarioReport ==
    /\ Step(7)
    /\ \E zero_null \in BOOLEAN : DoReport(zero_null)
    /\ pc' = 8
    /\ UNCHANGED loc

NextScenario ==
    \/ ScenarioAllocA
    \/ ScenarioReleaseA
    \/ ScenarioAllocB
    \/ ScenarioAllocC
    \/ ScenarioResizeC
    \/ ScenarioReleaseD
    \/ ScenarioReport

SpecScenario == InitScenario /\ [][NextScenario]_vars

(***************************************************************************)
(* The hash-table-backed ledger (the version of alloc_check.c kept in      *)
(* src/unnamed/part_001, lines 1-864).  Its `status` holds three vectors   *)
(* of entries, a hash table from address to history and the `tick`         *)
(* counter; under SpecHash the variable `status` is this record.  The      *)
(* vectors and the table come from the `sus` library, which is not part    *)
(* of the repository: a vector is a sequence, a table a function, and a    *)
(* call whose result the library alone decides (an add on a key the table  *)
(* holds, an append to the NULL that a failed get returned, a destroy of   *)
(* NULL) takes every outcome such a call can have.                         *)
(***************************************************************************)
\* static checker_status status = { .allocs = NULL, ..., .tick = 0 }
hash_status_initial ==
    [absent |-> TRUE, allocs |-> <<>>, reallocs |-> <<>>, frees |-> <<>>,
     entry_lookup |-> <<>>, tick |-> 0]

\* hashtable_add: a new key is added; on a key the table holds the add is
\* refused or replaces the value
hashtable_add(tbl, key, val) ==
    IF key \in DOMAIN tbl
    THEN {tbl, [tbl EXCEPT ![key] = val]}
    ELSE {[k \in DOMAIN tbl \cup {key} |-> IF k = key THEN val ELSE tbl[k]]}

\* hashtable_remove: the table without the key
hashtable_remove(tbl, key) == [k \in DOMAIN tbl \ {key} |-> tbl[k]]

\* init_checker: the three vectors, the table and its NULL history; the
\* tick is left as it is
hash_init_checker(st) ==
    IF ~st.absent THEN st
    ELSE [absent |-> FALSE, allocs |-> <<>>, reallocs |-> <<>>, frees |-> <<>>,
          entry_lookup |-> [k \in {NULL} |-> <<>>], tick |-> st.tick]

\* a create_memory_entry that stamps the tick without advancing it first
hash_create_memory_entry_stale(st, type, old_ptr, new_ptr, size, line) ==
    [type |-> type, old_ptr |-> old_ptr, new_ptr |-> new_ptr, size |-> size,
     line |-> line, tick |-> st.tick]

\* create_memory_entry: entry.tick = ++status.tick
hash_create_memory_entry(st, type, old_ptr, new_ptr, size, line) ==
    [type |-> type, old_ptr |-> old_ptr, new_ptr |-> new_ptr, size |-> size,
     line |-> line, tick |-> st.tick + 1]

\* the status after create_memory_entry made `entry`
hash_ticked(st, entry) == [st EXCEPT !.tick = entry.tick]

Running(st) == [status |-> st, proc |-> "running"]
Crashed(st) == [status |-> st, proc |-> "crashed"]

\* vector_append(hashtable_get(status.entry_lookup, ptr), entry): on a key
\* the table does not hold the get returns NULL and the append is given NULL
hash_append_history(st, ptr, entry) ==
    IF ptr \in DOMAIN st.entry_lookup
    THEN {Running([st EXCEPT !.entry_lookup[ptr] = Append(@, entry)])}
    ELSE {Running(st), Crashed(st)}

\* checked_malloc and checked_calloc (type tells which): a new history
\* holding the entry is added under ptr, the entry is appended to allocs
hash_alloc_ledger(st0, type, ptr, size, line) ==
    LET st == hash_init_checker(st0)
        entry == hash_create_memory_entry(st, type, NULL, ptr, size, line)
        st1 == hash_ticked(st, entry)
    IN  {Running([st1 EXCEPT !.entry_lookup = tbl, !.allocs = Append(@, entry)]) :
            tbl \in hashtable_add(st1.entry_lookup, ptr, <<entry>>)}

\* checked_realloc: with a null ptr the entry goes to the NULL history and
\* the function returns; otherwise it is appended to reallocs and to the
\* history of ptr, which moves to new_ptr when new_ptr is not null
hash_realloc_ledger(st0, ptr, new_ptr, size, line) ==
    LET st == hash_init_checker(st0)
        entry == hash_create_memory_entry(st, ENTRY_REALLOC, ptr, new_ptr, size, line)
        st1 == hash_ticked(st, entry)
        st2 == [st1 EXCEPT !.reallocs = Append(@, entry)]
    IN  IF ptr = NULL
        THEN hash_append_history(st1, NULL, entry)
        ELSE IF new_ptr = NULL
        THEN hash_append_history(st2, ptr, entry)
        ELSE LET held == ptr \in DOMAIN st2.entry_lookup
                 pointer_entries == IF held THEN st2.entry_lookup[ptr] ELSE <<>>
                 removed == hashtable_remove(st2.entry_lookup, ptr)
             IN  {Running([st2 EXCEPT !.entry_lookup = tbl]) :
                    tbl \in hashtable_add(removed, new_ptr,
                                          Append(pointer_entries, entry))}

\* checked_free: the entry is appended to frees and to the history of ptr
hash_free_ledger(st0, ptr, line) ==
    LET st == hash_init_checker(st0)
        entry == hash_create_memory_entry(st, ENTRY_FREE, ptr, NULL, 0, line)
        st1 == hash_ticked(st, entry)
    IN  hash_append_history([st1 EXCEPT !.frees = Append(@, entry)], ptr, entry)

\* the totals report_alloc_checks reads off the three vectors
hash_report_totals(st) ==
    [allocs |-> Len(st.allocs), reallocs |-> Len(st.reallocs), frees |-> Len(st.frees)]

\* cleanup_alloc_checks: destroys the vectors and the table (of NULL when
\* the ledger is absent) and sets the pointers to NULL and the tick to 0
hash_cleanup_ledger(st) ==
    IF st.absent THEN {Running(st), Crashed(st)}
    ELSE {Running(hash_status_initial)}

InitHash ==
    /\ status = hash_status_initial
    /\ proc = "running"
    /\ heap = [a \in Addr |-> FreeCell]
    /\ released = <<>>
    /\ calls = NoCalls
    /\ last = NoLast
    /\ ub = FALSE
    /\ ncalls = 0
    /\ out = <<>>
    /\ loc = NoLoc
    /\ pc = 0

HashVectorPtrs(v) ==
    {v[i].old_ptr : i \in 1..Len(v)} \cup {v[i].new_ptr : i \in 1..Len(v)}

\* addresses the run has met (see Seen): live, or in a recorded entry
HashSeen ==
    {a \in Addr : \/ heap[a].live
                  \/ a \in HashVectorPtrs(status.allocs)
                  \/ a \in HashVectorPtrs(status.reallocs)
                  \/ a \in HashVectorPtrs(status.frees)
                  \/ \E k \in DOMAIN status.entry_lookup :
                        a = k \/ a \in HashVectorPtrs(status.entry_lookup[k])}

HashCheckedMalloc ==
    /\ Ready(MaxCalls)
    /\ \E size \in MallocSizes : \E ptr \in Canon(malloc_results(heap), HashSeen) :
          \E o \in hash_alloc_ledger(status, ENTRY_MALLOC, ptr, size, ncalls + 1) :
              /\ status' = o.status
              /\ proc' = o.proc
              /\ heap' = IF ptr = NULL THEN heap
                         ELSE [heap EXCEPT ![ptr] = [live |-> TRUE, blk |-> 0]]
              /\ calls' = [calls EXCEPT !.allocs = @ + 1]
              /\ last' = [NoLast EXCEPT !.op = "malloc", !.raw = ptr, !.ret = ptr,
                                        !.req = malloc_call(size), !.args = <<size>>]
    /\ ncalls' = ncalls + 1
    /\ UNCHANGED <<released, ub, out, pc, loc>>

HashCheckedCalloc ==
    /\ Ready(MaxCalls)
    /\ \E a \in CallocArgs : \E ptr \in Canon(malloc_results(heap), HashSeen) :
          \E o \in hash_alloc_ledger(status, ENTRY_CALLOC, ptr, a[2], ncalls + 1) :
              /\ status' = o.status
              /\ proc' = o.proc
              /\ heap' = IF ptr = NULL THEN heap
                         ELSE [heap EXCEPT ![ptr] = [live |-> TRUE, blk |-> 0]]
              /\ calls' = [calls EXCEPT !.allocs = @ + 1]
              /\ last' = [NoLast EXCEPT !.op = "calloc", !.raw = ptr, !.ret = ptr,
                                        !.req = standard_calloc(a[1], a[2]),
                                        !.args = <<a[1], a[2]>>]
    /\ ncalls' = ncalls + 1
    /\ UNCHANGED <<released, ub, out, pc, loc>>

HashCheckedRealloc ==
    /\ Ready(MaxCalls)
    /\ \E ptr \in Canon(Ptr, HashSeen) : \E size \in ReallocSizes :
          \E r \in realloc_outcomes(heap, ptr, size) :
              /\ r.new_ptr \in Canon(Ptr, HashSeen \cup {ptr})
              /\ \E o \in hash_realloc_ledger(status, ptr, r.new_ptr, size, ncalls + 1) :
                    /\ status' = o.status
                    /\ proc' = o.proc
              /\ heap' = heap_after_realloc(heap, ptr, r)
              /\ ub' = (ub \/ (ptr # NULL /\ ~heap[ptr].live))
              /\ calls' = [calls EXCEPT !.reallocs = @ + 1]
              /\ last' = [NoLast EXCEPT !.op = "realloc", !.raw = r.new_ptr,
                                        !.ret = r.new_ptr,
                                        !.req = realloc_call(ptr, size),
                                        !.args = <<ptr, size>>]
    /\ ncalls' = ncalls + 1
    /\ UNCHANGED <<released, out, pc, loc>>

HashCheckedFree ==
    /\ Ready(MaxCalls)
    /\ \E ptr \in Canon(Ptr, HashSeen) :
          \E o \in hash_free_ledger(status, ptr, ncalls + 1) :
              /\ status' = o.status
              /\ proc' = o.proc
              /\ heap' = IF ptr # NULL /\ heap[ptr].live
                         THEN [heap EXCEPT ![ptr] = FreeCell] ELSE heap
              /\ ub' = (ub \/ (ptr # NULL /\ ~heap[ptr].live))
              /\ last' = [NoLast EXCEPT !.op = "free", !.req = free_call(ptr),
                                        !.args = <<ptr>>]
    /\ calls' = [calls EXCEPT !.frees = @ + 1]
    /\ ncalls' = ncalls + 1
    /\ UNCHANGED <<released, out, pc, loc>>

\* report_alloc_checks: init_checker, then passes that read the ledger; of
\* what it prints the three totals are kept
HashReport ==
    /\ Ready(MaxCalls)
    /\ status' = hash_init_checker(status)
    /\ out' = <<hash_report_totals(hash_init_checker(status))>>
    /\ last' = [NoLast EXCEPT !.op = "report"]
    /\ ncalls' = ncalls + 1
    /\ UNCHANGED <<proc, heap, released, calls, ub, pc, loc>>

HashCleanup ==
    /\ Ready(MaxCalls)
    /\ \E o \in hash_cleanup_ledger(status) :
          /\ status' = o.status
          /\ proc' = o.proc
    /\ calls' = NoCalls
    /\ last' = [NoLast EXCEPT !.op = "cleanup"]
    /\ ncalls' = ncalls + 1
    /\ UNCHANGED <<heap, released, ub, out, pc, loc>>

NextHash ==
    \/ HashCheckedMalloc
    \/ HashCheckedCalloc
    \/ HashCheckedRealloc
    \/ HashCheckedFree
    \/ HashReport
    \/ HashCleanup

SpecHash == InitHash /\ [][NextHash]_vars

(***************************************************************************)
(* Properties                                                              *)
(***************************************************************************)
Inited == ~status.allocs.null

\* what report_alloc_checks prints when called in the current state
Shown == report_metrics(status)

\* a report is the last thing that happened and it was printed
Reported == proc = "running" /\ last.op = "report" /\ out # <<>>

ListEntries(arr) == {arr.data[i] : i \in 1..arr.count}
CountIn(arr, P(_)) == Cardinality({i \in 1..arr.count : P(arr.data[i])})
MintedIds == 1..(status.id_counter - 1)
LostIds == {Shown.lost_blocks_v[i] : i \in 1..Len(Shown.lost_blocks_v)}

\* C1: the allocate, resize and release totals of the report equal the number
\* of allocate+zero_allocate, resize and release calls made since the ledger
\* was initialised, whatever the calls returned or were given.
C1_TotalsEqualCalls ==
    /\ Inited => LET m == report_totals(status)
                 IN  /\ m.allocs = calls.allocs
                     /\ m.reallocs = calls.reallocs
                     /\ m.frees = calls.frees
    /\ Reported => /\ out[1].allocs = calls.allocs
                   /\ out[1].reallocs = calls.reallocs
                   /\ out[1].frees = calls.frees

\* a report printed after a failed allocate and a release of NULL
C1_Witness ==
    /\ Reported
    /\ out[1].allocs = 1 /\ out[1].reallocs = 0 /\ out[1].frees = 1
    /\ At(status.allocs, 0).new_ptr = NULL
    /\ At(status.frees, 0).old_ptr = NULL

\* C2: (for a client that passes only live addresses) a block minted by a
\* successful allocate whose own address was released exactly once is not
\* among the lost blocks of the report.
C2_ReleasedOnceNotLost ==
    (Inited /\ ~ub) =>
        \A k \in MintedIds : released[k] = 1 => k \notin LostIds

\* the size of the last allocate or resize of a history that returned non-null
last_successful_size(es) ==
    LET ok == {j \in 1..Len(es) : es[j].type # ENTRY_FREE /\ es[j].new_ptr # NULL}
    IN  IF ok = {} THEN 0
        ELSE es[CHOOSE j \in ok : \A k \in ok : k <= j].size

\* C3: (for a client that passes only live addresses) a block that was never
\* released is among the lost blocks, and the size shown for it and added to
\* memory lost is the size of its last allocate or resize that returned
\* non-null.
C3_LostWithLastSuccessfulSize ==
    (Inited /\ ~ub) =>
        /\ \A k \in MintedIds : released[k] = 0 =>
              /\ k \in LostIds
              /\ shown_block_size(status, k) = last_successful_size(EntriesOf(status, k))
        /\ (\A k \in MintedIds : released[k] = 0) =>
              Shown.memory_lost =
                  SumSeq([k \in 1..(status.id_counter - 1) |->
                             last_successful_size(EntriesOf(status, k))])

\* C4: the zero-sized-allocation count is the number of Allocate/ZeroAllocate
\* events of size 0 and the zero-sized-resize count the number of Resize
\* events of size 0.
C4_ZeroSizedCountedPerEvent ==
    Inited =>
        /\ Shown.zero_allocs = CountIn(status.allocs, LAMBDA e : e.size = 0)
        /\ Shown.zero_reallocs = CountIn(status.reallocs, LAMBDA e : e.size = 0)

\* C5: the failed-resize count is the number of Resize events with size > 0
\* and a null returned address, in whichever bucket.
C5_FailedResizes ==
    Inited =>
        Shown.failed_reallocs =
            CountIn(status.reallocs, LAMBDA e : e.size > 0 /\ e.new_ptr = NULL)

\* C6: the failed-allocation count is the number of Allocate/ZeroAllocate
\* events with size > 0 and a null address; every alloc event with a null
\* address is in bucket 0 and bucket 0 holds no alloc event with a non-null
\* address.
C6_FailedAllocs ==
    /\ Inited =>
          /\ find_failed_re_allocs(status).failed_allocs =
                 CountIn(status.allocs, LAMBDA e : e.size > 0 /\ e.new_ptr = NULL)
          /\ \A e \in ListEntries(status.allocs) :
                 e.new_ptr = NULL => e \in ListEntries(At(status.entry_lookup, 0))
          /\ \A e \in ListEntries(At(status.entry_lookup, 0)) :
                 IsAllocType(e) => e.new_ptr = NULL
    /\ Reported =>
          out[1].failed_allocs =
              CountIn(status.allocs, LAMBDA e : e.size > 0 /\ e.new_ptr = NULL)

\* a report after one failed allocate and one null zero-sized allocate
C6_Witness ==
    /\ Reported
    /\ out[1].failed_allocs = 1
    /\ out[1].allocs = 2
    /\ At(status.entry_lookup, 0).count = 2

\* C7: the report counts every release(null) as a NULL free and every
\* resize(null, n) as a NULL realloc.
C7_NullArgumentsCounted ==
    Inited =>
        /\ Shown.null_frees = CountIn(status.frees, LAMBDA e : e.old_ptr = NULL)
        /\ Shown.null_reallocs = CountIn(status.reallocs, LAMBDA e : e.old_ptr = NULL)

\* the scenario's report has been printed
ScenarioReported == pc = 8 /\ proc = "running"

\* C8: the scenario's report shows exactly one lost block, B (the second
\* block minted) with 80 bytes, whether D is null or not.
C8_ScenarioOneLostBlock ==
    ScenarioReported =>
        /\ out[1].blocks_lost = 1
        /\ out[1].lost_blocks_v = <<2>>
        /\ out[1].lost_sizes = <<80>>
        /\ out[1].memory_lost = 80

\* C9: the scenario's report shows one zero-sized resize, no zero-sized
\* allocation, and totals 3/1/1 when D is null and 3/1/2 when it is not.
C9_ScenarioCounts ==
    ScenarioReported =>
        /\ out[1].zero_reallocs = 1
        /\ out[1].zero_allocs = 0
        /\ out[1].allocs = 3
        /\ out[1].reallocs = 1
        /\ out[1].frees = IF loc.D = NULL THEN 1 ELSE 2

\* the scenario where C got the address A had and the resize returned non-null
C9_Witness ==
    /\ ScenarioReported
    /\ loc.D # NULL
    /\ loc.C = loc.A
    /\ out[1].frees = 2

\* C10: allocate, zero_allocate and resize return what the underlying
\* allocator returned; the result, null included, is recorded as the newest
\* event of its list, and the process exits only when a bookkeeping
\* allocation of the tracker itself failed.
C10_ShimsReturnAllocatorResult ==
    /\ (last.op \in {"malloc", "calloc", "realloc"} /\ ~last.oom) =>
          /\ proc = "running"
          /\ last.ret = last.raw
          /\ LET arr == IF last.op = "realloc" THEN status.reallocs ELSE status.allocs
             IN  /\ arr.count > 0
                 /\ At(arr, arr.count - 1).new_ptr = last.raw
                 /\ At(arr, arr.count - 1).line = ncalls
    /\ proc = "exit72" => last.oom

\* a resize of a tracked block for which the allocator returned null
C10_Witness ==
    /\ proc = "running"
    /\ last.op = "realloc"
    /\ last.raw = NULL
    /\ last.ret = NULL
    /\ At(status.reallocs, status.reallocs.count - 1).id # 0

\* C11: zero_allocate(count, size) makes the request on the underlying
\* allocator that the unwrapped zero-initialising primitive receives: a
\* zero-initialised block of count * size bytes.
C11_CallocRequest ==
    (last.op = "calloc" /\ ~last.oom) =>
        /\ last.req.bytes = last.args[1] * last.args[2]
        /\ last.req.zeroed
        /\ last.req = standard_calloc(last.args[1], last.args[2])

\* the step is a call of op that returned to the client
Returns(op) == last'.op = op /\ ncalls' = ncalls + 1 /\ proc' = "running"

\* the entry a returned call of op appended to its list
NewEntry(op) ==
    LET arr == CASE op = "realloc" -> status'.reallocs
                 [] op = "free" -> status'.frees
                 [] OTHER -> status'.allocs
    IN  At(arr, arr.count - 1)

\* the non-null addresses the tracked entry points returned since the ledger
\* was initialised
Returned(st) ==
    (EntryPtrs(st.allocs) \cup {st.reallocs.data[i].new_ptr : i \in 1..st.reallocs.count})
        \ {NULL}

\* the histories of a ledger, an absent ledger having bucket 0 only, empty
Histories(st) ==
    IF st.allocs.null THEN <<(<<>>)>>
    ELSE [i \in 1..st.entry_lookup.count |-> st.entry_lookup.data[i].data]

\* the pointer table of a ledger, an absent one mapping NULL only
PointerTable(st) == IF st.allocs.null THEN <<NULL>> ELSE st.pointers.data

\* C12: a resize or release of a non-null address that no tracked entry
\* point returned resolves to id 0: the call returns, its event is appended
\* to bucket 0, no other history changes, no history is added and the
\* address-to-id table does not change.
C12_UnknownAddressToBucketZero ==
    [][\A op \in {"realloc", "free"} :
          (/\ last'.op = op /\ ncalls' = ncalls + 1 /\ ~last'.oom
           /\ last'.args[1] # NULL
           /\ last'.args[1] \notin Returned(status)) =>
              /\ proc' = "running"
              /\ NewEntry(op).id = 0
              /\ NewEntry(op).old_ptr = last'.args[1]
              /\ Histories(status') =
                     [Histories(status) EXCEPT ![1] = Append(@, NewEntry(op))]
              /\ PointerTable(status') = PointerTable(status)]_vars

\* a release of an address nothing returned, next to a tracked block
C12_Witness ==
    /\ proc = "running"
    /\ last.op = "free"
    /\ last.args[1] # NULL
    /\ last.args[1] \notin Returned(status)
    /\ status.id_counter = 2
    /\ At(status.frees, status.frees.count - 1).id = 0
    /\ Len(EntriesOf(status, 0)) = 1

\* s is t with nothing removed or changed: t, or t with elements appended
IsPrefix(s, t) == Len(s) <= Len(t) /\ \A i \in 1..Len(s) : s[i] = t[i]

\* the events of the three per-kind lists
AllEvents(st) ==
    ListEntries(st.allocs) \cup ListEntries(st.reallocs) \cup ListEntries(st.frees)

EventCount(st) == st.allocs.count + st.reallocs.count + st.frees.count

\* C13: the ledger is initialised by the first interception or report call;
\* a call on an initialised ledger re-creates and clears nothing; a reset
\* leaves the ledger absent; the next call on an absent ledger starts from an
\* empty one: its event is the only event, bucket 0 is the only history
\* besides the one of a block it minted, the only non-null address mapped
\* is the address it returned, and the id it minted is 1.
C13_LedgerLifecycle ==
    [][/\ (Inited /\ ncalls' = ncalls + 1 /\ proc' = "running"
                  /\ last'.op # "cleanup") =>
              /\ Inited'
              /\ IsPrefix(status.allocs.data, status'.allocs.data)
              /\ IsPrefix(status.reallocs.data, status'.reallocs.data)
              /\ IsPrefix(status.frees.data, status'.frees.data)
              /\ Len(Histories(status)) <= Len(Histories(status'))
              /\ \A i \in 1..Len(Histories(status)) :
                     IsPrefix(Histories(status)[i], Histories(status')[i])
              /\ Len(PointerTable(status)) <= Len(PointerTable(status'))
              /\ status.id_counter <= status'.id_counter
       /\ (Inited /\ Returns("cleanup")) =>
              /\ ~Inited'
              /\ status'.id_counter = 0
              /\ status'.reallocs.null /\ status'.frees.null
              /\ status'.pointers.null /\ status'.entry_lookup.null
       /\ (~Inited /\ ncalls' = ncalls + 1 /\ proc' = "running") =>
              /\ Inited'
              /\ EventCount(status') = IF last'.op = "report" THEN 0 ELSE 1
              /\ \A e \in AllEvents(status') : e.line = ncalls'
              /\ status'.entry_lookup.count = status'.id_counter
              /\ status'.pointers.count = status'.id_counter
              /\ IF last'.op \in {"malloc", "calloc"} /\ last'.ret # NULL
                 THEN /\ status'.id_counter = 2
                      /\ PointerTable(status') = <<NULL, last'.ret>>
                      /\ Histories(status') = <<(<<>>), <<NewEntry(last'.op)>> >>
                      /\ NewEntry(last'.op).id = 1
                 ELSE /\ status'.id_counter = 1
                      /\ PointerTable(status') = <<NULL>>
                      /\ Histories(status') =
                             IF last'.op = "report" THEN <<(<<>>)>>
                             ELSE << <<NewEntry(last'.op)>> >>]_vars

\* an allocation made after a reset: the ledger holds this one event, under
\* id 1, while two blocks are live
C13_Witness ==
    /\ proc = "running" /\ ~ub
    /\ last.op = "malloc"
    /\ EventCount(status) = 1
    /\ At(status.allocs, 0).id = 1
    /\ At(status.allocs, 0).line = 3
    /\ status.id_counter = 2
    /\ Cardinality({a \in Addr : heap[a].live}) = 2

\* the ledger holds no event: absent, or initialised with three empty lists
EmptyLedger(st) == st.allocs.null \/ EventCount(st) = 0

\* C14: generate_report called on an empty ledger returns (it does not end
\* the process) and shows none found for every pass, whatever the underlying
\* allocator returns for the report's zero-length scratch arrays (the other
\* allocations of the ledger succeeding).
C14_ReportOnEmptyLedger ==
    (last.op = "report" /\ EmptyLedger(status) /\ (last.oom => last.zero)) =>
        /\ proc = "running"
        /\ out # <<>>
        /\ out[1].blocks_lost = 0 /\ out[1].memory_lost = 0
        /\ out[1].zero_allocs = 0 /\ out[1].zero_reallocs = 0
        /\ out[1].failed_allocs = 0 /\ out[1].failed_reallocs = 0
        /\ out[1].null_reallocs = 0 /\ out[1].null_frees = 0

\* C15: generate_report leaves an initialised ledger as it found it (the
\* three lists, the address table, every history, the id counter), and a
\* report that follows a report with no call in between shows the same
\* metrics.
C15_ReportReadOnly ==
    [][(Inited /\ Returns("report")) =>
          /\ status' = status
          /\ (Reported => out' = out)]_vars

\* an allocation followed by two reports in a row
C15_Witness ==
    /\ Reported
    /\ ncalls = 3
    /\ EventCount(status) = 1
    /\ At(status.allocs, 0).line = 1
    /\ out[1].allocs = 1
    /\ out[1].blocks_lost = 1

\* every event of the three lists is in the history of its id, every entry of
\* a history is an event of the lists, and every id has its table slot and
\* its history
FullyRecorded(st) ==
    /\ \A e \in AllEvents(st) :
          /\ e.id < st.entry_lookup.count
          /\ e \in ListEntries(At(st.entry_lookup, e.id))
    /\ \A i \in 0..(st.entry_lookup.count - 1) :
          \A e \in ListEntries(At(st.entry_lookup, i)) :
              e \in AllEvents(st) /\ e.id = i
    /\ st.pointers.count = st.id_counter
    /\ st.entry_lookup.count = st.id_counter

\* C16: when an allocation the ledger makes for itself (an event record or
\* its file name, an array or its growth or trim, a scratch array of the
\* report) returns null the process ends with exit status 72, and a call
\* that returns to the client has recorded its event in full.
C16_BookkeepingFailureExits ==
    /\ last.oom => proc = "exit72"
    /\ proc = "crashed" => (last.op = "cleanup" /\ ~last.oom)
    /\ (proc = "running" /\ Inited) => (~last.oom /\ FullyRecorded(status))

\* a release on a ledger holding events, ended by a failed allocation of the
\* ledger
C16_Witness ==
    /\ proc = "exit72"
    /\ last.op = "free"
    /\ last.oom /\ ~last.zero
    /\ EventCount(status) = 2

LiveBlocks == {a \in Addr : heap[a].live}

\* C17: reset releases no block handed out to the client: the blocks live
\* in the underlying allocator are the same before and after it, only the
\* ledger is discarded.
C17_ResetFreesNoUserMemory ==
    [][(Inited /\ Returns("cleanup")) =>
          /\ LiveBlocks' = LiveBlocks
          /\ ~Inited']_vars

\* a reset made while a block of the client is live
C17_Witness ==
    /\ proc = "running" /\ ~ub
    /\ last.op = "cleanup"
    /\ ncalls = 2
    /\ ~Inited
    /\ Cardinality(LiveBlocks) = 1

\* the number of places of the sequence s that hold x
Occurrences(s, x) == Cardinality({i \in 1..Len(s) : s[i] = x})

\* every event is in exactly one place of the three lists and in exactly one
\* place of the histories
HeldOnce(st) ==
    LET lists == st.allocs.data \o st.reallocs.data \o st.frees.data
        n == st.entry_lookup.count
        in_history(e) ==
            SumSeq([i \in 1..n |-> Occurrences(st.entry_lookup.data[i].data, e)])
        events == AllEvents(st) \cup
                      UNION {ListEntries(st.entry_lookup.data[i]) : i \in 1..n}
    IN  \A e \in events : Occurrences(lists, e) = 1 /\ in_history(e) = 1

\* C18: on an initialised ledger every recorded event is held by exactly one
\* of the three lists and by exactly one history; reset releases every event
\* exactly once and every history exactly once, and nothing else as an
\* event or a history.
C18_EventOwnership ==
    [][/\ (Inited' /\ proc' = "running") => HeldOnce(status')
       /\ (Inited /\ Returns("cleanup")) =>
              LET r == cleanup_released(status)
              IN  /\ \A e \in AllEvents(status) : Occurrences(r.entries, e) = 1
                  /\ \A k \in 1..Len(r.entries) : r.entries[k] \in AllEvents(status)
                  /\ \A i \in 0..(status.entry_lookup.count - 1) :
                         Occurrences(r.histories, i) = 1
                  /\ Len(r.histories) = status.entry_lookup.count
                  /\ \A l \in {"allocs", "reallocs", "frees", "pointers",
                                "entry_lookup"} : Occurrences(r.lists, l) = 1]_vars

\* a reset of a ledger that held the events of two live blocks
C18_Witness ==
    /\ proc = "running" /\ ~ub
    /\ last.op = "cleanup"
    /\ ncalls = 3
    /\ ~Inited
    /\ Cardinality(LiveBlocks) = 2

RECURSIVE Log2(_)
\* the integer part of the binary logarithm of n >= 1
Log2(n) == IF n <= 1 THEN 0 ELSE 1 + Log2(n \div 2)

\* C19: lookup(address) resolves an address in O(1) or O(log n) steps in the
\* number of tracked blocks: it examines at most 1 + log2(n) slots of a
\* table of n slots, and not every slot.
C19_LookupLogarithmic ==
    Inited =>
        \A p \in Ptr :
            find_id_steps(status, p) <= 1 + Log2(status.pointers.count)

\* the last entry of history id is a resize of ptr that returned null
FailedResizeLast(st, id, ptr) ==
    LET es == EntriesOf(st, id)
    IN  /\ Len(es) > 0
        /\ es[Len(es)].type = ENTRY_REALLOC
        /\ es[Len(es)].old_ptr = ptr
        /\ es[Len(es)].new_ptr = NULL

\* C20: a resize of a tracked block that returns null leaves the
\* address-to-id table as it was: lookup(old_address) yields the same id
\* after it, the resize event is appended to the history of that id and to
\* no other, and a release of old_address that follows is appended to the
\* same history.
C20_FailedResizeKeepsMapping ==
    [][/\ Returns("realloc") =>
              LET ptr == last'.args[1]
                  id == find_id(status, ptr)
              IN  (id # 0 /\ last'.raw = NULL) =>
                      /\ last'.ret = NULL
                      /\ PointerTable(status') = PointerTable(status)
                      /\ find_id(status', ptr) = id
                      /\ NewEntry("realloc").id = id
                      /\ Histories(status') =
                             [Histories(status) EXCEPT
                                 ![id + 1] = Append(@, NewEntry("realloc"))]
       /\ Returns("free") =>
              LET ptr == last'.args[1]
                  id == find_id(status, ptr)
              IN  (id # 0 /\ FailedResizeLast(status, id, ptr)) =>
                      /\ NewEntry("free").id = id
                      /\ PointerTable(status') = PointerTable(status)
                      /\ Histories(status') =
                             [Histories(status) EXCEPT
                                 ![id + 1] = Append(@, NewEntry("free"))]]_vars

\* a block allocated, resized with a null result, then released: the three
\* events are the history of id 1
C20_Witness ==
    /\ proc = "running" /\ ~ub
    /\ last.op = "free"
    /\ status.id_counter = 2
    /\ Len(EntriesOf(status, 1)) = 3
    /\ EntriesOf(status, 1)[2].type = ENTRY_REALLOC
    /\ EntriesOf(status, 1)[2].new_ptr = NULL
    /\ EntriesOf(status, 1)[2].size = 20
    /\ EntriesOf(status, 1)[3].type = ENTRY_FREE
    /\ EntriesOf(status, 1)[3].old_ptr = EntriesOf(status, 1)[1].new_ptr
    /\ released[1] = 1

\* the newest entry of the resize list
LastResize == At(status.reallocs, status.reallocs.count - 1)

\* the last call was a resize that returned to a client that passes only
\* live addresses
ResizeReturned ==
    proc = "running" /\ last.op = "realloc" /\ ~last.oom /\ ~ub

\* C21: (for a client that passes only live addresses) after a successful
\* resize of a tracked block with id k to the address B, lookup(B) = k,
\* whatever allocations and releases came before, those that used B
\* included.
C21_IdKeptAcrossResize ==
    (ResizeReturned /\ LastResize.id # 0 /\ LastResize.new_ptr # NULL) =>
        find_id(status, LastResize.new_ptr) = LastResize.id

\* the id the next successful allocation gets, 1 on an absent ledger
NextId(st) == IF st.allocs.null THEN 1 ELSE st.id_counter

\* the ids of the alloc events that returned non-null, in list order
MintedSeq(st) ==
    LET ok == {i \in 1..st.allocs.count : st.allocs.data[i].new_ptr # NULL}
        ord == Ascending(ok)
    IN  [k \in 1..Len(ord) |-> st.allocs.data[ord[k]].id]

\* C22: ids are minted only by allocate and zero_allocate calls that returned
\* non-null: such a call gets the counter's value as its id and the counter
\* grows by one, so the ids minted are 1, 2, 3, ... and none is minted
\* twice; a failed allocate, a resize, a release and a report leave the
\* counter as it was, and the failed allocate's event goes to history[0].
C22_IdsMintedBySuccessfulAllocs ==
    [][(ncalls' = ncalls + 1 /\ proc' = "running" /\ last'.op # "cleanup") =>
          /\ IF last'.op \in {"malloc", "calloc"} /\ last'.ret # NULL
             THEN /\ NewEntry(last'.op).id = NextId(status)
                  /\ status'.id_counter = NextId(status) + 1
             ELSE status'.id_counter = NextId(status)
          /\ (last'.op \in {"malloc", "calloc"} /\ last'.ret = NULL) =>
                 /\ NewEntry(last'.op).id = 0
                 /\ Histories(status')[1] =
                        Append(Histories(status)[1], NewEntry(last'.op))
          /\ MintedSeq(status') = [k \in 1..(status'.id_counter - 1) |-> k]]_vars

\* a failed zero_allocate between two successful allocations: ids 1 and 2
C22_Witness ==
    /\ proc = "running"
    /\ status.allocs.count = 3
    /\ At(status.allocs, 0).id = 1
    /\ At(status.allocs, 1).id = 0
    /\ At(status.allocs, 1).type = ENTRY_CALLOC
    /\ At(status.allocs, 2).id = 2
    /\ status.id_counter = 3

\* C23: (for a client that passes only live addresses) a resize whose
\* previous address is null is logged under bucket 0 and mints no id: the
\* id counter and the address table are as before the call, also when the
\* call returned a non-null address, and lookup of the returned address
\* yields 0 afterwards.
C23_NullResizeInBucketZero ==
    [][(Returns("realloc") /\ last'.args[1] = NULL /\ ~ub') =>
          /\ NewEntry("realloc").id = 0
          /\ Histories(status') =
                 [Histories(status) EXCEPT ![1] = Append(@, NewEntry("realloc"))]
          /\ status'.id_counter = NextId(status)
          /\ PointerTable(status') = PointerTable(status)
          /\ (last'.ret # NULL => find_id(status', last'.ret) = 0)]_vars

\* history id holds a release of ptr
ReleasedIn(st, id, ptr) ==
    \E j \in 1..Len(EntriesOf(st, id)) :
        /\ EntriesOf(st, id)[j].type = ENTRY_FREE
        /\ EntriesOf(st, id)[j].old_ptr = ptr

\* C24: release does not remove the address-to-id mapping: after a release
\* of an address that lookup resolves to id k >= 1 the table is as before
\* and lookup of the address still yields k, and a second release or a
\* resize of the address made while it still resolves to k is appended to
\* history[k], not to bucket 0.
C24_ReleaseKeepsMapping ==
    [][/\ Returns("free") =>
              LET ptr == last'.args[1]
                  id == find_id(status, ptr)
              IN  id # 0 =>
                      /\ PointerTable(status') = PointerTable(status)
                      /\ find_id(status', ptr) = id
                      /\ NewEntry("free").id = id
       /\ \A op \in {"realloc", "free"} :
              Returns(op) =>
                  LET ptr == last'.args[1]
                      id == find_id(status, ptr)
                  IN  (id # 0 /\ ReleasedIn(status, id, ptr)) =>
                          /\ NewEntry(op).id = id
                          /\ Histories(status') =
                                 [Histories(status) EXCEPT
                                     ![id + 1] = Append(@, NewEntry(op))]]_vars

\* a block released twice: both releases are in the history of id 1
C24_Witness ==
    /\ proc = "running"
    /\ last.op = "free"
    /\ status.id_counter = 2
    /\ Len(EntriesOf(status, 1)) = 3
    /\ EntriesOf(status, 1)[2].type = ENTRY_FREE
    /\ EntriesOf(status, 1)[3].type = ENTRY_FREE
    /\ EntriesOf(status, 1)[3].old_ptr = EntriesOf(status, 1)[1].new_ptr
    /\ Len(EntriesOf(status, 0)) = 0

\* C25: (for a client that passes only live addresses) after a successful
\* resize of a tracked block from the address A to a different non-null
\* address B, lookup(A) yields 0 and lookup(B) yields the block's id.
C25_ResizeDropsOldMapping ==
    (/\ ResizeReturned
     /\ LastResize.id # 0
     /\ LastResize.new_ptr # NULL
     /\ LastResize.new_ptr # LastResize.old_ptr) =>
        /\ find_id(status, LastResize.old_ptr) = 0
        /\ find_id(status, LastResize.new_ptr) = LastResize.id

\* C26: (for a client that passes only live addresses) Freed is terminal: a
\* Release event of history[k], k >= 1, is the last element of history[k]
\* and a history holds at most one Release.
C26_FreedIsTerminal ==
    (Inited /\ ~ub) =>
        \A k \in 1..(status.entry_lookup.count - 1) :
            LET es == EntriesOf(status, k)
            IN  \A j \in 1..Len(es) : es[j].type = ENTRY_FREE => j = Len(es)

\* C27: while the ledger is initialised the number of histories, the number
\* of entries of the id-to-address table and the id counter are equal,
\* index 0 exists and is bound to the null address, and the id stored in
\* every event is an index below the counter.
C27_DenseIdMap ==
    Inited =>
        /\ status.entry_lookup.count = status.id_counter
        /\ status.pointers.count = status.id_counter
        /\ Len(status.entry_lookup.data) = status.entry_lookup.count
        /\ Len(status.pointers.data) = status.pointers.count
        /\ status.id_counter >= 1
        /\ At(status.pointers, 0) = NULL
        /\ \A e \in AllEvents(status) : e.id \in 0..(status.id_counter - 1)
        /\ \A i \in 0..(status.entry_lookup.count - 1) :
              \A e \in ListEntries(At(status.entry_lookup, i)) :
                  e.id \in 0..(status.id_counter - 1)

\* three blocks minted: four histories, four table entries, counter 4
C27_Witness ==
    /\ proc = "running"
    /\ status.id_counter = 4
    /\ status.entry_lookup.count = 4
    /\ status.pointers.count = 4
    /\ At(status.pointers, 3) # NULL

\* the last non-null new_ptr among the entries es, NULL when there is none
last_new_address(es) ==
    LET nn == {j \in 1..Len(es) : es[j].new_ptr # NULL}
    IN  IF nn = {} THEN NULL
        ELSE es[CHOOSE j \in nn : \A k \in nn : k <= j].new_ptr

\* C28: for every id k >= 1 the address the table stores for k is the last
\* non-null new_address among the events of history[k].
C28_TableHoldsCurrentAddress ==
    Inited =>
        \A k \in 1..(status.pointers.count - 1) :
            /\ At(status.pointers, k) = last_new_address(EntriesOf(status, k))
            /\ At(status.pointers, k) # NULL

\* a block moved by a resize and then resized with a null result: the table
\* holds the address the first resize returned
C28_Witness ==
    /\ proc = "running" /\ ~ub
    /\ status.id_counter = 2
    /\ Len(EntriesOf(status, 1)) = 3
    /\ EntriesOf(status, 1)[2].type = ENTRY_REALLOC
    /\ EntriesOf(status, 1)[2].new_ptr # NULL
    /\ EntriesOf(status, 1)[2].new_ptr # EntriesOf(status, 1)[1].new_ptr
    /\ EntriesOf(status, 1)[3].type = ENTRY_REALLOC
    /\ EntriesOf(status, 1)[3].new_ptr = NULL
    /\ At(status.pointers, 1) = EntriesOf(status, 1)[2].new_ptr

\* the number of entries of all histories together
HistoryEntryCount(st) ==
    SumSeq([i \in 1..Len(Histories(st)) |-> Len(Histories(st)[i])])

\* the lists of a ledger, those of an absent ledger being empty
ListsOf(st) == <<st.allocs.data, st.reallocs.data, st.frees.data>>

\* C29: between initialisation and reset the ledger is append-only: a call
\* leaves every per-kind list and every history with its previous contents
\* as a prefix (the trim after a release included), and a call of allocate,
\* zero_allocate, resize or release appends exactly one event, to its own
\* list and to one history.
C29_AppendOnly ==
    [][(ncalls' = ncalls + 1 /\ proc' = "running" /\ last'.op # "cleanup") =>
          LET shim == last'.op \in {"malloc", "calloc", "realloc", "free"}
              own == CASE last'.op = "realloc" -> 2
                       [] last'.op = "free" -> 3
                       [] OTHER -> 1
          IN  /\ \A l \in 1..3 : IsPrefix(ListsOf(status)[l], ListsOf(status')[l])
              /\ \A i \in 1..Len(Histories(status)) :
                     /\ i <= Len(Histories(status'))
                     /\ IsPrefix(Histories(status)[i], Histories(status')[i])
              /\ EventCount(status') = EventCount(status) + (IF shim THEN 1 ELSE 0)
              /\ HistoryEntryCount(status') =
                     HistoryEntryCount(status) + (IF shim THEN 1 ELSE 0)
              /\ shim =>
                     /\ Len(ListsOf(status')[own]) = Len(ListsOf(status)[own]) + 1
                     /\ NewEntry(last'.op).line = ncalls'
                     /\ NewEntry(last'.op) \in
                            ListEntries(At(status'.entry_lookup,
                                           NewEntry(last'.op).id))]_vars

\* a release appended behind a release in a trimmed history: the history
\* keeps its three events
C29_Witness ==
    /\ proc = "running"
    /\ last.op = "free"
    /\ status.id_counter = 2
    /\ status.frees.count = 2
    /\ Len(EntriesOf(status, 1)) = 3
    /\ EntriesOf(status, 1)[1].line = 1
    /\ EntriesOf(status, 1)[2].line = 2
    /\ EntriesOf(status, 1)[3].line = 3
    /\ At(status.entry_lookup, 1).capacity = 3

HashVectors ==
    {status.allocs, status.reallocs, status.frees}
        \cup {status.entry_lookup[k] : k \in DOMAIN status.entry_lookup}

HashEvents == UNION {{v[i] : i \in 1..Len(v)} : v \in HashVectors}

\* C31: every recorded event carries a sequence number strictly greater than
\* that of every event recorded earlier since the last reset, one increment
\* per shim call starting at 1, so each per-kind list and each history is
\* strictly increasing in sequence number; reset restarts the numbering (an
\* absent ledger has counter 0).
C31_SequenceNumbersIncrease ==
    proc = "running" =>
        /\ status.tick = calls.allocs + calls.reallocs + calls.frees
        /\ status.absent => status.tick = 0
        /\ \A e \in HashEvents : e.tick \in 1..status.tick
        /\ \A e1, e2 \in HashEvents : e1.line < e2.line => e1.tick < e2.tick
        /\ \A v \in HashVectors :
               \A i, j \in 1..Len(v) : i < j => v[i].tick < v[j].tick

\* an allocation recorded with number 1 as the third call, after a reset
\* that followed an earlier recorded call
C31_Witness ==
    /\ proc = "running"
    /\ last.op = "malloc"
    /\ ncalls = 3
    /\ Len(status.allocs) = 1
    /\ status.allocs[1].tick = 1
    /\ status.allocs[1].line = 3
    /\ status.tick = 1

\* C32: in the hash-table-backed ledger every resize call that returns has
\* appended its event to the resize-kind list and to a history, a resize of
\* a null address included, so the resize total of the report equals the
\* number of resize calls.
C32_ResizeListedAndCounted ==
    proc = "running" =>
        /\ last.op = "realloc" =>
               /\ \E i \in 1..Len(status.reallocs) : status.reallocs[i].line = ncalls
               /\ \E k \in DOMAIN status.entry_lookup :
                      \E i \in 1..Len(status.entry_lookup[k]) :
                          status.entry_lookup[k][i].line = ncalls
        /\ ~status.absent => hash_report_totals(status).reallocs = calls.reallocs
        /\ last.op = "report" => out[1].reallocs = calls.reallocs

\* C33: (for a client that passes only live addresses) every non-null
\* address returned by allocate, zero_allocate or resize, a resize of a null
\* address included, since the ledger was created and still allocated when
\* the report is made (never released, never moved by a resize) is the
\* address of a block the report lists as lost.
C33_LeakCompleteness ==
    (Reported /\ ~ub) =>
        \A a \in Returned(status) :
            heap[a].live =>
                \E i \in 1..out[1].blocks_lost :
                    At(status.pointers, out[1].lost_blocks_v[i]) = a

\* the history of block k holds no Release event
Unreleased(k) == \A j \in 1..Len(EntriesOf(status, k)) :
                     EntriesOf(status, k)[j].type # ENTRY_FREE

\* C34: (the allocator never returns an address it has allocated, the client
\* passes only live addresses) no two distinct block ids >= 1 whose histories
\* hold no Release event are bound to the same address in the pointer table.
C34_UnreleasedBlocksHaveDistinctAddresses ==
    (Inited /\ ~ub) =>
        \A i, j \in 1..(status.id_counter - 1) :
            (i < j /\ Unreleased(i) /\ Unreleased(j)) =>
                At(status.pointers, i) # At(status.pointers, j)

\* C35: the size recorded in the event of a zero_allocate call is
\* count * size whether the underlying allocation succeeded or failed, so
\* the event is zero-sized exactly when count * size = 0.
C35_CallocRecordsProduct ==
    (proc = "running" /\ last.op = "calloc") =>
        LET e == At(status.allocs, status.allocs.count - 1)
        IN  /\ e.type = ENTRY_CALLOC
            /\ e.line = ncalls
            /\ e.size = last.args[1] * last.args[2]

\* C36: reset called while the ledger is absent (before any shim or report
\* call, or right after another reset) is a no-op: the process keeps
\* running and the ledger stays absent.
C36_ResetOnAbsentLedgerIsNoOp ==
    [][(~Inited /\ proc = "running" /\ last'.op = "cleanup") =>
          /\ proc' = "running"
          /\ status' = status
          /\ ~Inited']_vars

\* C37: the history of every block id k >= 1 is non-empty, its first event
\* is an Allocate or ZeroAllocate event with a non-null address and no other
\* event of it is an Allocate or ZeroAllocate; every Allocate or
\* ZeroAllocate event in bucket 0 has a null address.
C37_HistoriesStartWithTheirAllocation ==
    Inited =>
        /\ \A k \in 1..(status.entry_lookup.count - 1) :
               LET es == EntriesOf(status, k)
               IN  /\ Len(es) >= 1
                   /\ IsAllocType(es[1])
                   /\ es[1].new_ptr # NULL
                   /\ \A j \in 2..Len(es) : ~IsAllocType(es[j])
        /\ \A j \in 1..Len(EntriesOf(status, 0)) :
               IsAllocType(EntriesOf(status, 0)[j]) =>
                   EntriesOf(status, 0)[j].new_ptr = NULL

\* a failed allocation in bucket 0 beside a block whose history is its
\* allocation followed by a resize
C37_Witness ==
    /\ Inited
    /\ status.id_counter = 2
    /\ Len(EntriesOf(status, 0)) = 1
    /\ IsAllocType(EntriesOf(status, 0)[1])
    /\ Len(EntriesOf(status, 1)) = 2
    /\ EntriesOf(status, 1)[2].type = ENTRY_REALLOC

\* count <= capacity <= max(VOIDPTRARR_DEFAULT_CAP, 2 * count)
CapacityBounded(arr) ==
    /\ arr.count <= arr.capacity
    /\ arr.capacity <= (IF 2 * arr.count > VOIDPTRARR_DEFAULT_CAP
                        THEN 2 * arr.count ELSE VOIDPTRARR_DEFAULT_CAP)

\* C38: every growable array of the ledger (the five of status and the
\* histories) keeps count <= capacity, and since an append enlarges the
\* capacity only when the array is full, its capacity is at most
\* max(4, 2 * count).
C38_CapacityBounded ==
    Inited =>
        /\ CapacityBounded(status.allocs)
        /\ CapacityBounded(status.reallocs)
        /\ CapacityBounded(status.frees)
        /\ CapacityBounded(status.pointers)
        /\ CapacityBounded(status.entry_lookup)
        /\ \A k \in 0..(status.entry_lookup.count - 1) :
               CapacityBounded(At(status.entry_lookup, k))

====
